---- MODULE Spec2Model ----
(***************************************************************************)
(* Model of src/pipeline/pipeline_btc.py: a Pipeline of Filters            *)
(* (Validation, Auth, Transform, Fee, Storage) applied in list order to    *)
(* one Transaction through a per-run context dict, with a SQLite table as  *)
(* the durable store.                                                      *)
(*                                                                         *)
(* Numbers.  btc_amount is counted in units of 1e-5 BTC, money             *)
(* (subtotal_base, commission_*, total_base) in units of 1e-5 of the       *)
(* currency, BTC prices in whole currency units, so price * amount is      *)
(* directly a money value.  FX factors are hundredths (0.93 = 93/100).     *)
(* round(x, 2) is round-half-even to a multiple of Cent.                   *)
(* An Optional[float] is a set: None is {}, a value v is {v}.              *)
(*                                                                         *)
(* Specifications.  Spec: one Pipeline over any filter list and any        *)
(* constructor arguments, run sequentially.  SpecMain: main()'s batch of   *)
(* examples on the five-stage pipeline, with the clock running.  SpecConc: *)
(* several runs of the five-stage pipeline interleaved at the SQLite calls.*)
(***************************************************************************)
EXTENDS Integers, Sequences, FiniteSets, TLC

VARIABLES filters, pc, idx, tx, context, db, err, runs,
          tx0, db0, executed, written, fault,
          results, now, born, thr, lock

vars == <<filters, pc, idx, tx, context, db, err, runs,
          tx0, db0, executed, written, fault,
          results, now, born, thr, lock>>

----------------------------------------------------------------------------
(* Bounds *)

MaxFilters == 2

MaxRuns == 2

MaxClock == 2

NumThreads == 2

----------------------------------------------------------------------------
(* Units and values *)

MoneyScale == 100000

Cent == MoneyScale \div 100

FxDen == 100

None == {}

Some(v) == {v}

Val(o) == CHOOSE v \in o : TRUE

Absent == "<absent>"

\* Python's round(num/den, 2) on a money value given as the fraction num/den
Round2Q(num, den) ==
    LET d == den * Cent
        q == num \div d
        r == num % d
    IN  IF 2 * r < d THEN q * Cent
        ELSE IF 2 * r > d THEN (q + 1) * Cent
        ELSE IF q % 2 = 0 THEN q * Cent ELSE (q + 1) * Cent

Round2(x) == Round2Q(x, 1)

----------------------------------------------------------------------------
(* Errors *)

NoErr == [kind |-> "none", msg |-> "", cause |-> ""]

Error(k, m) == [kind |-> k, msg |-> m, cause |-> ""]

PipelineErrors == {"ValidationError", "AuthError", "TransformError", "StorageError"}

----------------------------------------------------------------------------
(* Transaction, User, rate tables *)

CommissionUsdDefault == 5 * MoneyScale

DefaultTs == 0

NullableFields == {"btc_price_in_base", "subtotal_base", "commission_base", "total_base"}

Transaction(u, a, c, p, s, cb, t, ts) ==
    [user_id |-> u, btc_amount |-> a, base_currency |-> c,
     btc_price_in_base |-> p, subtotal_base |-> s,
     commission_usd |-> CommissionUsdDefault,
     commission_base |-> cb, total_base |-> t, ts_epoch |-> ts]

Users == [u \in {"u001", "u002", "u003"} |->
            [user_id |-> u,
             name |-> CASE u = "u001" -> "Alice" [] u = "u002" -> "Bob" [] OTHER -> "Carol",
             active |-> (u # "u003")]]

BtcTable == [c \in {"USD", "EUR", "GBP"} |->
                CASE c = "USD" -> 65000 [] c = "EUR" -> 61000 [] OTHER -> 53000]

FxUsdTable == [c \in {"USD", "EUR", "GBP"} |->
                CASE c = "USD" -> 100 [] c = "EUR" -> 93 [] OTHER -> 80]

\* FixedRateProvider.get_btc_price: the price, or the raised TransformError
get_btc_price(currency) ==
    IF currency \notin DOMAIN BtcTable
    THEN [err |-> Error("TransformError", "Moneda no soportada para precio BTC"), val |-> 0]
    ELSE [err |-> NoErr, val |-> BtcTable[currency]]

\* usd_to falling back to a factor of 1.0 for a currency it does not know
usd_to_default(currency) ==
    IF currency \notin DOMAIN FxUsdTable
    THEN [err |-> NoErr, val |-> 100]
    ELSE [err |-> NoErr, val |-> FxUsdTable[currency]]

\* FixedRateProvider.usd_to: the factor in hundredths, or the raised TransformError
usd_to(currency) ==
    IF currency \notin DOMAIN FxUsdTable
    THEN [err |-> Error("TransformError", "Moneda no soportada para FX"), val |-> 0]
    ELSE [err |-> NoErr, val |-> FxUsdTable[currency]]

----------------------------------------------------------------------------
(* Filters.  Each process operator yields the outcome of one call: the     *)
(* raised error (NoErr on return), the transaction and the context after   *)
(* the call, and the fields the call assigned.                             *)

Return(t, ctx, w) == [err |-> NoErr, tx |-> t, context |-> ctx, wrote |-> w]

\* an exception that restored the transaction given to run
Raise_rollback(t, ctx, e) == [err |-> e, tx |-> tx0, context |-> ctx, wrote |-> {}]

\* An exception leaves the filter: what was assigned before stays assigned
Raise(t, ctx, e) == [err |-> e, tx |-> t, context |-> ctx, wrote |-> {}]

ValidCurrencies == {"USD", "EUR", "GBP"}

\* the amount check written as < 0
ValidationFilter_process_zeroOk(t, ctx) ==
    IF t.user_id = ""
    THEN Raise(t, ctx, Error("ValidationError", "Falta user_id valido."))
    ELSE IF t.btc_amount < 0
    THEN Raise(t, ctx, Error("ValidationError", "btc_amount debe ser numerico y > 0."))
    ELSE IF t.base_currency \notin ValidCurrencies
    THEN Raise(t, ctx, Error("ValidationError", "base_currency debe ser USD, EUR o GBP."))
    ELSE Return(t, ctx, {})

\* the amount checked before the user id
ValidationFilter_process_amountFirst(t, ctx) ==
    IF t.btc_amount <= 0
    THEN Raise(t, ctx, Error("ValidationError", "btc_amount debe ser numerico y > 0."))
    ELSE IF t.user_id = ""
    THEN Raise(t, ctx, Error("ValidationError", "Falta user_id valido."))
    ELSE IF t.base_currency \notin ValidCurrencies
    THEN Raise(t, ctx, Error("ValidationError", "base_currency debe ser USD, EUR o GBP."))
    ELSE Return(t, ctx, {})

ValidationFilter_process(t, ctx) ==
    IF t.user_id = ""
    THEN Raise(t, ctx, Error("ValidationError", "Falta user_id valido."))
    ELSE IF t.btc_amount <= 0
    THEN Raise(t, ctx, Error("ValidationError", "btc_amount debe ser numerico y > 0."))
    ELSE IF t.base_currency \notin ValidCurrencies
    THEN Raise(t, ctx, Error("ValidationError", "base_currency debe ser USD, EUR o GBP."))
    ELSE Return(t, ctx, {})

\* the active flag left unchecked
AuthFilter_process_noActive(t, ctx) ==
    IF t.user_id \notin DOMAIN Users
    THEN Raise(t, ctx, Error("AuthError", "Usuario no existe."))
    ELSE Return(t, [ctx EXCEPT !.user = t.user_id], {})

AuthFilter_process(t, ctx) ==
    IF t.user_id \notin DOMAIN Users
    THEN Raise(t, ctx, Error("AuthError", "Usuario no existe."))
    ELSE IF ~Users[t.user_id].active
    THEN Raise(t, ctx, Error("AuthError", "Usuario esta inactivo."))
    ELSE Return(t, [ctx EXCEPT !.user = t.user_id], {})

\* the subtotal computed without the price being recorded
TransformFilter_process_noPrice(t, ctx) ==
    LET price == get_btc_price(t.base_currency)
    IN  IF price.err # NoErr
        THEN Raise(t, ctx, price.err)
        ELSE Return([t EXCEPT !.subtotal_base = Some(Round2(price.val * t.btc_amount))],
                    ctx, {"subtotal_base"})

TransformFilter_process(t, ctx) ==
    LET price == get_btc_price(t.base_currency)
    IN  IF price.err # NoErr
        THEN Raise(t, ctx, price.err)
        ELSE Return([t EXCEPT !.btc_price_in_base = Some(price.val),
                              !.subtotal_base = Some(Round2(price.val * t.btc_amount))],
                    ctx, {"btc_price_in_base", "subtotal_base"})

\* the commission taken in USD, without the conversion to the base currency
FeeFilter_process_noFx(t, ctx) ==
    IF t.subtotal_base = None
    THEN Raise(t, ctx, Error("TransformError", "Falta subtotal_base; ejecute TransformFilter antes."))
    ELSE LET fx == usd_to(t.base_currency)
         IN  IF fx.err # NoErr
             THEN Raise(t, ctx, fx.err)
             ELSE LET cb == Round2(t.commission_usd)
                  IN  Return([t EXCEPT !.commission_base = Some(cb),
                                       !.total_base = Some(Round2(Val(t.subtotal_base) + cb))],
                             ctx, {"commission_base", "total_base"})

\* the subtotal check left out, a missing subtotal counted as 0
FeeFilter_process_noCheck(t, ctx) ==
    LET fx == usd_to(t.base_currency)
        sub == IF t.subtotal_base = None THEN 0 ELSE Val(t.subtotal_base)
    IN  IF fx.err # NoErr
        THEN Raise(t, ctx, fx.err)
        ELSE LET cb == Round2Q(t.commission_usd * fx.val, FxDen)
             IN  Return([t EXCEPT !.commission_base = Some(cb),
                                  !.total_base = Some(Round2(sub + cb))],
                        ctx, {"commission_base", "total_base"})

\* the commission left out of the total
FeeFilter_process_noCommission(t, ctx) ==
    IF t.subtotal_base = None
    THEN Raise(t, ctx, Error("TransformError", "Falta subtotal_base; ejecute TransformFilter antes."))
    ELSE LET fx == usd_to(t.base_currency)
         IN  IF fx.err # NoErr
             THEN Raise(t, ctx, fx.err)
             ELSE LET cb == Round2Q(t.commission_usd * fx.val, FxDen)
                  IN  Return([t EXCEPT !.commission_base = Some(cb),
                                       !.total_base = Some(Round2(Val(t.subtotal_base)))],
                             ctx, {"commission_base", "total_base"})

FeeFilter_process(t, ctx) ==
    IF t.subtotal_base = None
    THEN Raise(t, ctx, Error("TransformError", "Falta subtotal_base; ejecute TransformFilter antes."))
    ELSE LET fx == usd_to(t.base_currency)
         IN  IF fx.err # NoErr
             THEN Raise(t, ctx, fx.err)
             ELSE LET cb == Round2Q(t.commission_usd * fx.val, FxDen)
                  IN  Return([t EXCEPT !.commission_base = Some(cb),
                                       !.total_base = Some(Round2(Val(t.subtotal_base) + cb))],
                             ctx, {"commission_base", "total_base"})

\* the INSERT with subtotal_base bound to the total_base column
Row_swapped(t, id) ==
    [id |-> id, user_id |-> t.user_id, btc_amount |-> t.btc_amount,
     base_currency |-> t.base_currency,
     btc_price_in_base |-> t.btc_price_in_base, subtotal_base |-> t.subtotal_base,
     commission_usd |-> t.commission_usd, commission_base |-> t.commission_base,
     total_base |-> t.subtotal_base, ts_epoch |-> t.ts_epoch]

\* The row INSERTed for a transaction, with the AUTOINCREMENT id
Row(t, id) ==
    [id |-> id, user_id |-> t.user_id, btc_amount |-> t.btc_amount,
     base_currency |-> t.base_currency,
     btc_price_in_base |-> t.btc_price_in_base, subtotal_base |-> t.subtotal_base,
     commission_usd |-> t.commission_usd, commission_base |-> t.commission_base,
     total_base |-> t.total_base, ts_epoch |-> t.ts_epoch]

\* Where sqlite3 may raise a DatabaseError in StorageFilter.process
WriteFaults == {"connect", "execute", "commit"}

\* the completeness check written with all() instead of any()
Incomplete_all(t) ==
    \A f \in NullableFields : t[f] = None

\* any(v is None for v in required)
Incomplete(t) ==
    \E f \in NullableFields : t[f] = None

\* an insert that skips a transaction already stored with the same fields
StorageFilter_process_dedup(t, ctx, store, o) ==
    IF Incomplete(t)
    THEN [res |-> Raise(t, ctx, Error("StorageError", "Transaccion incompleta; verifique filtros previos.")),
          db |-> store]
    ELSE IF o = "connect"
    THEN [res |-> Raise(t, ctx, Error("UnboundLocalError", "conn")), db |-> store]
    ELSE IF o \in {"execute", "commit"}
    THEN [res |-> Raise(t, ctx, [kind |-> "StorageError",
                                 msg |-> "Error al guardar en SQLite", cause |-> o]),
          db |-> store]
    ELSE [res |-> Return(t, [ctx EXCEPT !.storage_result = "ok"], {}),
          db |-> IF \E j \in 1..Len(store) : store[j] = Row(t, j)
                 THEN store
                 ELSE Append(store, Row(t, Len(store) + 1))]

\* a connection in autocommit mode: the row is there when the commit raises
StorageFilter_process_autocommit(t, ctx, store, o) ==
    IF Incomplete(t)
    THEN [res |-> Raise(t, ctx, Error("StorageError", "Transaccion incompleta; verifique filtros previos.")),
          db |-> store]
    ELSE IF o = "connect"
    THEN [res |-> Raise(t, ctx, Error("UnboundLocalError", "conn")), db |-> store]
    ELSE IF o = "execute"
    THEN [res |-> Raise(t, ctx, [kind |-> "StorageError",
                                 msg |-> "Error al guardar en SQLite", cause |-> o]),
          db |-> store]
    ELSE IF o = "commit"
    THEN [res |-> Raise(t, ctx, [kind |-> "StorageError",
                                 msg |-> "Error al guardar en SQLite", cause |-> o]),
          db |-> Append(store, Row(t, Len(store) + 1))]
    ELSE [res |-> Return(t, [ctx EXCEPT !.storage_result = "ok"], {}),
          db |-> Append(store, Row(t, Len(store) + 1))]

\* StorageFilter.process under the outcome o of the SQLite calls ("ok" or a
\* member of WriteFaults); store is the committed content of the table
StorageFilter_process(t, ctx, store, o) ==
    IF Incomplete(t)
    THEN [res |-> Raise(t, ctx, Error("StorageError", "Transaccion incompleta; verifique filtros previos.")),
          db |-> store]
    ELSE IF o = "connect"
    \* conn was never bound: conn.close() in the finally clause raises
    \* UnboundLocalError, which replaces the StorageError in flight
    THEN [res |-> Raise(t, ctx, Error("UnboundLocalError", "conn")), db |-> store]
    ELSE IF o \in {"execute", "commit"}
    \* the uncommitted INSERT is dropped when the connection is closed
    THEN [res |-> Raise(t, ctx, [kind |-> "StorageError",
                                 msg |-> "Error al guardar en SQLite", cause |-> o]),
          db |-> store]
    ELSE [res |-> Return(t, [ctx EXCEPT !.storage_result = "ok"], {}),
          db |-> Append(store, Row(t, Len(store) + 1))]

----------------------------------------------------------------------------
(* Pipeline *)

FilterNames == {"ValidationFilter", "AuthFilter", "TransformFilter", "FeeFilter", "StorageFilter"}

\* main() with the Storage filter listed before the Auth filter
MainFilters_storageEarly == <<"ValidationFilter", "TransformFilter", "FeeFilter", "StorageFilter", "AuthFilter">>

\* The pipeline main() builds
MainFilters == <<"ValidationFilter", "AuthFilter", "TransformFilter", "FeeFilter", "StorageFilter">>

FilterLists == {MainFilters} \cup UNION {[1..n -> FilterNames] : n \in 0..MaxFilters}

\* main() runs a batch through its pipeline; any other Pipeline runs once
RunsFor(fs) == IF fs = MainFilters THEN MaxRuns ELSE 1

\* a loop that swallows the exception and goes on with the next filter
AfterFilter_continue(e, i) == [pc |-> "running", idx |-> i + 1]

\* Pipeline.run's loop: a filter that returns hands over to the next one, a
\* filter that raises ends the run
AfterFilter(e, i) ==
    IF e = NoErr THEN [pc |-> "running", idx |-> i + 1]
    ELSE [pc |-> "failed", idx |-> i]

\* a context kept on the Pipeline and reused by the next run
NewContext_reused(id) == [context EXCEPT !.transaction = id]

\* context = {"transaction": transaction}; a Transaction object is named by
\* the number of the run it is passed to
NewContext(id) == [transaction |-> id, user |-> Absent, storage_result |-> Absent]

\* Arguments of the Transaction constructor
UserIds == {"", "u001", "u003", "u999"}

Amounts == {-1000, 0, 1000}

Currencies == {"USD", "EUR", "JPY"}

PresetValue == [f \in NullableFields |->
                  CASE f = "btc_price_in_base" -> 60000
                    [] f = "subtotal_base" -> 123456
                    [] f = "commission_base" -> 250000
                    [] OTHER -> 999000]

Opt(f) == {None, Some(PresetValue[f])}

\* ts_epoch is left to its default, evaluated once when the class is defined
TsValues == {DefaultTs}

TxInputs ==
    {Transaction(u, a, c, p, s, cb, t, ts) :
        u \in UserIds, a \in Amounts, c \in Currencies,
        p \in Opt("btc_price_in_base"), s \in Opt("subtotal_base"),
        cb \in Opt("commission_base"), t \in Opt("total_base"), ts \in TsValues}

NothingWritten == [f \in NullableFields |-> None]

InitPipeline ==
    /\ filters \in FilterLists
    /\ pc = "idle"
    /\ idx = 1
    /\ tx = Transaction("", 0, "USD", None, None, None, None, DefaultTs)
    /\ tx0 = tx
    /\ context = [transaction |-> 0, user |-> Absent, storage_result |-> Absent]
    /\ db = <<>>
    /\ db0 = <<>>
    /\ err = NoErr
    /\ runs = 0
    /\ executed = <<>>
    /\ written = NothingWritten
    /\ fault = "none"
    /\ results = <<>>
    /\ now = 0
    /\ born = 0

\* The program as written: one thread, no concurrent runs
Init ==
    /\ InitPipeline
    /\ thr = <<>>
    /\ lock = 0

\* Transaction(...) is constructed, with ts_epoch left to its default, and
\* passed to pipeline.run
Run(t) ==
    /\ pc = "idle"
    /\ runs < RunsFor(filters)
    /\ runs' = runs + 1
    /\ tx' = t
    /\ tx0' = t
    /\ context' = NewContext(runs + 1)
    /\ pc' = "running"
    /\ idx' = 1
    /\ err' = NoErr
    /\ db0' = db
    /\ executed' = <<>>
    /\ written' = NothingWritten
    /\ fault' = "none"
    /\ born' = now
    /\ UNCHANGED <<filters, db, results, now, thr, lock>>

AtFilter(name) ==
    /\ pc = "running"
    /\ idx <= Len(filters)
    /\ filters[idx] = name

\* context = f.process(context) for the filter at idx
Apply(r) ==
    /\ tx' = r.tx
    /\ context' = r.context
    /\ err' = r.err
    /\ pc' = AfterFilter(r.err, idx).pc
    /\ idx' = AfterFilter(r.err, idx).idx
    /\ executed' = Append(executed, filters[idx])
    /\ written' = [f \in NullableFields |-> IF f \in r.wrote THEN r.tx[f] ELSE written[f]]
    /\ UNCHANGED <<filters, runs, tx0, db0, results, now, born, thr, lock>>

Validation ==
    /\ AtFilter("ValidationFilter")
    /\ Apply(ValidationFilter_process(tx, context))
    /\ UNCHANGED <<db, fault>>

Auth ==
    /\ AtFilter("AuthFilter")
    /\ Apply(AuthFilter_process(tx, context))
    /\ UNCHANGED <<db, fault>>

Transform ==
    /\ AtFilter("TransformFilter")
    /\ Apply(TransformFilter_process(tx, context))
    /\ UNCHANGED <<db, fault>>

Fee ==
    /\ AtFilter("FeeFilter")
    /\ Apply(FeeFilter_process(tx, context))
    /\ UNCHANGED <<db, fault>>

Storage ==
    /\ AtFilter("StorageFilter")
    /\ \E o \in {"ok"} \cup WriteFaults :
          LET s == StorageFilter_process(tx, context, db, o)
          IN  /\ Apply(s.res)
              /\ db' = s.db
              /\ fault' = IF Incomplete(tx) \/ o = "ok" THEN fault ELSE o

\* return context
Finish ==
    /\ pc = "running"
    /\ idx > Len(filters)
    /\ pc' = "done"
    /\ UNCHANGED <<filters, idx, tx, context, db, err, runs, tx0, db0, executed, written, fault,
                   results, now, born, thr, lock>>

\* The report entry main() appends for the run that just ended
Entry ==
    IF pc = "done"
    THEN [ok |-> TRUE, error |-> "", message |-> "", transaction |-> context.transaction,
          user |-> context.user, storage_result |-> context.storage_result]
    ELSE [ok |-> FALSE, error |-> err.kind, message |-> err.msg, transaction |-> runs,
          user |-> Absent, storage_result |-> Absent]

\* main()'s loop body after pipeline.run: append the ok entry, or the
\* failure entry in the except PipelineError clause, and go on with the batch
Report ==
    /\ filters = MainFilters
    /\ pc \in {"done", "failed"}
    /\ pc = "failed" => err.kind \in PipelineErrors
    /\ results' = Append(results, Entry)
    /\ pc' = "idle"
    /\ UNCHANGED <<filters, idx, tx, context, db, err, runs, tx0, db0, executed, written, fault,
                   now, born, thr, lock>>

\* an exception that is not a PipelineError leaves main(): the batch ends
\* and nothing is printed
Crash ==
    /\ filters = MainFilters
    /\ pc = "failed"
    /\ err.kind \notin PipelineErrors
    /\ pc' = "crashed"
    /\ UNCHANGED <<filters, idx, tx, context, db, err, runs, tx0, db0, executed, written, fault,
                   results, now, born, thr, lock>>

\* time.time() advances
Tick ==
    /\ now < MaxClock
    /\ now' = now + 1
    /\ UNCHANGED <<filters, pc, idx, tx, context, db, err, runs, tx0, db0, executed, written,
                   fault, results, born, thr, lock>>

Next ==
    \/ \E t \in TxInputs : Run(t)
    \/ Validation
    \/ Auth
    \/ Transform
    \/ Fee
    \/ Storage
    \/ Finish
    \/ Report
    \/ Crash

Spec == Init /\ [][Next]_vars

Examples ==
    {Transaction("u001", 1000, "USD", None, None, None, None, DefaultTs),
     Transaction("u002", 5000, "EUR", None, None, None, None, DefaultTs),
     Transaction("u001", 300, "GBP", None, None, None, None, DefaultTs),
     Transaction("u003", 2000, "USD", None, None, None, None, DefaultTs),
     Transaction("u999", 2000, "USD", None, None, None, None, DefaultTs)}

\* The transactions main() lists, those commented out included
InitMain ==
    /\ Init
    /\ filters = MainFilters

NextMain ==
    \/ \E t \in Examples : Run(t)
    \/ Validation
    \/ Auth
    \/ Transform
    \/ Fee
    \/ Storage
    \/ Finish
    \/ Report
    \/ Crash
    \/ Tick

\* main(): the batch of examples on the five-stage pipeline, with the clock running
SpecMain == InitMain /\ [][NextMain]_vars

----------------------------------------------------------------------------
(* Concurrent runs: each thread calls pipeline.run on a Transaction and a   *)
(* context of its own; the threads share only the SQLite table, which each  *)
(* StorageFilter.process call opens through a connection of its own.        *)

process(name, t, ctx) ==
    CASE name = "ValidationFilter" -> ValidationFilter_process(t, ctx)
      [] name = "AuthFilter" -> AuthFilter_process(t, ctx)
      [] name = "TransformFilter" -> TransformFilter_process(t, ctx)
      [] name = "FeeFilter" -> FeeFilter_process(t, ctx)

RECURSIVE RunFilters(_, _, _)
\* Pipeline.run over filters that touch nothing but the transaction and the context
RunFilters(names, t, ctx) ==
    IF names = <<>> THEN Return(t, ctx, {})
    ELSE LET r == process(Head(names), t, ctx)
         IN  IF r.err # NoErr THEN r ELSE RunFilters(Tail(names), r.tx, r.context)

BeforeStorage == SelectSeq(MainFilters, LAMBDA n : n # "StorageFilter")

Thread(i, t) ==
    [pc |-> "start", tx |-> t, context |-> NewContext(i), err |-> NoErr, row |-> None]

\* a store that takes no lock for a write
WriteLockFree_unlocked(i) == TRUE

\* SQLite lets one connection at a time hold the write lock of the database
WriteLockFree(i) == lock = 0

seqvars == <<filters, pc, idx, tx, context, err, runs, tx0, db0, executed, written, fault,
             results, now, born>>

InitConc ==
    /\ InitPipeline
    /\ filters = MainFilters
    /\ \E f \in [1..NumThreads -> Examples] :
          thr = [i \in 1..NumThreads |-> Thread(i, f[i])]
    /\ lock = 0

\* the filters before Storage
CPrepare(i) ==
    /\ thr[i].pc = "start"
    /\ LET r == RunFilters(BeforeStorage, thr[i].tx, thr[i].context)
       IN  thr' = [thr EXCEPT ![i].tx = r.tx, ![i].context = r.context, ![i].err = r.err,
                              ![i].pc = IF r.err = NoErr THEN "storage" ELSE "failed"]
    /\ UNCHANGED <<db, lock, seqvars>>

\* StorageFilter.process: the completeness check and sqlite3.connect
CConnect(i) ==
    /\ thr[i].pc = "storage"
    /\ \E o \in {"ok", "connect"} :
          LET s == StorageFilter_process(thr[i].tx, thr[i].context, db, o)
          IN  thr' = [thr EXCEPT ![i].err = IF o = "ok" /\ ~Incomplete(thr[i].tx) THEN NoErr
                                            ELSE s.res.err,
                                 ![i].pc = IF o = "ok" /\ ~Incomplete(thr[i].tx) THEN "connected"
                                           ELSE "failed"]
    /\ UNCHANGED <<db, lock, seqvars>>

\* cur.execute(INSERT ...): takes the write lock and assigns the next id, or
\* raises a DatabaseError (among them "database is locked" when another
\* connection keeps the lock past the busy timeout)
CExecute(i) ==
    /\ thr[i].pc = "connected"
    /\ \/ /\ WriteLockFree(i)
          /\ lock' = i
          /\ thr' = [thr EXCEPT ![i].row = Some(Row(thr[i].tx, Len(db) + 1)),
                                 ![i].pc = "inserted"]
       \/ /\ lock' = lock
          /\ thr' = [thr EXCEPT ![i].err = StorageFilter_process(thr[i].tx, thr[i].context,
                                                                 db, "execute").res.err,
                                 ![i].pc = "failed"]
    /\ UNCHANGED <<db, seqvars>>

\* conn.commit(), conn.close() and context["storage_result"] = "ok"; a commit
\* that raises leaves the INSERT to be rolled back by conn.close()
CCommit(i) ==
    /\ thr[i].pc = "inserted"
    /\ lock' = 0
    /\ \/ /\ db' = Append(db, Val(thr[i].row))
          /\ thr' = [thr EXCEPT ![i].context = [thr[i].context EXCEPT !.storage_result = "ok"],
                                 ![i].pc = "returned"]
       \/ /\ db' = db
          /\ thr' = [thr EXCEPT ![i].err = StorageFilter_process(thr[i].tx, thr[i].context,
                                                                 db, "commit").res.err,
                                 ![i].pc = "failed"]
    /\ UNCHANGED seqvars

NextConc ==
    \/ \E i \in DOMAIN thr : CPrepare(i)
    \/ \E i \in DOMAIN thr : CConnect(i)
    \/ \E i \in DOMAIN thr : CExecute(i)
    \/ \E i \in DOMAIN thr : CCommit(i)

SpecConc == InitConc /\ [][NextConc]_vars

TypeOK ==
    /\ filters \in FilterLists
    /\ pc \in {"idle", "running", "done", "failed", "crashed"}
    /\ idx \in 1..(Len(filters) + 1)
    /\ runs \in 0..MaxRuns

----------------------------------------------------------------------------
(* Properties *)

Last(s) == s[Len(s)]

Ran(name) == \E i \in 1..Len(executed) : executed[i] = name

\* C1: on the five-stage pipeline, whenever run returns successfully,
\* btc_price_in_base, subtotal_base, commission_base and total_base are all
\* set and total_base = round(subtotal_base + commission_base, 2).
C1_TotalAfterSuccess ==
    (filters = MainFilters /\ pc = "done") =>
        /\ tx.btc_price_in_base # None
        /\ tx.subtotal_base # None
        /\ tx.commission_base # None
        /\ tx.total_base # None
        /\ Val(tx.total_base) = Round2(Val(tx.subtotal_base) + Val(tx.commission_base))

\* a valid transaction, given with stale computed fields, has run to success
C1_Witness ==
    /\ filters = MainFilters
    /\ pc = "done"
    /\ tx0.user_id = "u001" /\ tx0.btc_amount > 0 /\ tx0.base_currency = "EUR"
    /\ tx0.total_base # None
    /\ tx.total_base # tx0.total_base

\* C2: run applies the filters strictly in list order and stops at the first
\* one that raises: the filters executed are always a prefix of the list, a
\* raised failure ends the run at the raising filter, no filter executes in
\* that run afterwards, and a Validation failure of the five-stage pipeline
\* means no other filter executed.
C2_ShortCircuit ==
    /\ [](/\ executed = SubSeq(filters, 1, Len(executed))
          /\ pc \in {"running", "done"} => (err = NoErr /\ Len(executed) = idx - 1)
          /\ err # NoErr => (pc \in {"failed", "idle", "crashed"} /\ Len(executed) = idx)
          /\ (filters = MainFilters /\ err.kind = "ValidationError")
                => executed = <<"ValidationFilter">>)
    /\ [][(err # NoErr /\ runs' = runs) => executed' = executed]_vars

\* Validation has failed with four filters of the pipeline still to come
C2_Witness ==
    /\ filters = MainFilters
    /\ pc = "failed"
    /\ err.kind = "ValidationError"
    /\ idx = 1
    /\ Len(executed) = 1

InvalidInput(t) ==
    \/ t.btc_amount <= 0
    \/ t.user_id = ""
    \/ t.base_currency \notin {"USD", "EUR", "GBP"}

\* C3: a transaction with amount <= 0, an empty user id or a currency outside
\* {USD, EUR, GBP} makes the pipeline raise a ValidationError, with the
\* transaction as it was given and no user or storage_result key in the context.
C3_ValidationGate ==
    (filters = MainFilters /\ pc \in {"done", "failed"} /\ InvalidInput(tx0)) =>
        /\ pc = "failed"
        /\ err.kind = "ValidationError"
        /\ tx = tx0
        /\ context.user = Absent
        /\ context.storage_result = Absent

\* a zero amount from a known user, with computed fields given, was rejected
C3_Witness ==
    /\ filters = MainFilters
    /\ pc = "failed"
    /\ tx0.btc_amount = 0 /\ tx0.user_id = "u001" /\ tx0.base_currency = "USD"
    /\ tx0.subtotal_base # None
    /\ err.kind = "ValidationError"

StaysUnset(f) == tx0[f] = None => tx[f] = None

\* C4: an otherwise valid transaction raises AuthError "no existe" when its
\* user id is not in the user directory and AuthError "inactivo" when the
\* user is inactive; price, subtotal and total stay unset.
C4_AuthGate ==
    (filters = MainFilters /\ pc \in {"done", "failed"} /\ ~InvalidInput(tx0)) =>
        /\ tx0.user_id \notin {"u001", "u002", "u003"} =>
              /\ pc = "failed"
              /\ err.kind = "AuthError" /\ err.msg = "Usuario no existe."
              /\ StaysUnset("btc_price_in_base")
              /\ StaysUnset("subtotal_base")
              /\ StaysUnset("total_base")
        /\ tx0.user_id = "u003" =>
              /\ pc = "failed"
              /\ err.kind = "AuthError" /\ err.msg = "Usuario esta inactivo."
              /\ StaysUnset("btc_price_in_base")
              /\ StaysUnset("subtotal_base")
              /\ StaysUnset("total_base")

\* the inactive user u003 was refused on a fresh, valid transaction
C4_Witness ==
    /\ filters = MainFilters
    /\ pc = "failed"
    /\ tx0.user_id = "u003" /\ tx0.btc_amount > 0 /\ tx0.base_currency = "USD"
    /\ tx0.btc_price_in_base = None /\ tx0.subtotal_base = None /\ tx0.total_base = None
    /\ err.kind = "AuthError"

\* C5: a successful run of the pipeline adds exactly one row to the store,
\* after the rows already there, and the row's fields equal the fields of
\* the transaction returned to the caller.
C5_OneRowPerSuccess ==
    (filters = MainFilters /\ pc = "done") =>
        /\ Len(db) = Len(db0) + 1
        /\ SubSeq(db, 1, Len(db0)) = db0
        /\ LET row == db[Len(db)]
           IN  /\ row.user_id = tx.user_id
               /\ row.btc_amount = tx.btc_amount
               /\ row.base_currency = tx.base_currency
               /\ row.btc_price_in_base = tx.btc_price_in_base
               /\ row.subtotal_base = tx.subtotal_base
               /\ row.commission_usd = tx.commission_usd
               /\ row.commission_base = tx.commission_base
               /\ row.total_base = tx.total_base
               /\ row.ts_epoch = tx.ts_epoch

\* a second successful run, in another currency than the row already stored
C5_Witness ==
    /\ filters = MainFilters
    /\ pc = "done"
    /\ Len(db0) = 1
    /\ Len(db) = 2
    /\ db[1].base_currency # db[2].base_currency

\* C6: a run that ends in a ValidationError, AuthError or TransformError
\* leaves the store as it was when the run started: always on the five-stage
\* pipeline, and on any pipeline when no Storage filter came before.
C6_NoWriteOnFailure ==
    (pc = "failed" /\ err.kind \in {"ValidationError", "AuthError", "TransformError"}) =>
        ((filters = MainFilters \/ ~Ran("StorageFilter")) => db = db0)

\* the inactive user was refused while the store already held a row
C6_Witness ==
    /\ filters = MainFilters
    /\ pc = "failed"
    /\ err.kind = "AuthError"
    /\ tx0.user_id = "u003"
    /\ Len(db0) = 1
    /\ db = db0

\* C7: when a filter raises, the transaction the caller sees still holds
\* every value the earlier filters of the run wrote, and its other computed
\* fields are as given; nothing is rolled back.
C7_NoRollback ==
    pc = "failed" =>
        \A f \in NullableFields :
            IF written[f] # None THEN tx[f] = written[f] ELSE tx[f] = tx0[f]

\* Storage failed on a write error after Transform and Fee filled all four fields
C7_Witness ==
    /\ filters = MainFilters
    /\ pc = "failed"
    /\ idx = 5
    /\ err.kind = "StorageError"
    /\ \A f \in NullableFields : written[f] # None /\ tx[f] = written[f] /\ tx0[f] = None

\* C8: get_btc_price and usd_to raise the unsupported-currency TransformError
\* for every currency outside the table, and a Transform filter, or a Fee
\* filter given a subtotal, invoked on such a currency fails with it.
C8_UnsupportedCurrency ==
    /\ \A c \in Currencies \ {"USD", "EUR", "GBP"} :
          /\ get_btc_price(c).err.kind = "TransformError"
          /\ usd_to(c).err.kind = "TransformError"
    /\ (executed # <<>> /\ tx.base_currency \notin {"USD", "EUR", "GBP"}) =>
          /\ Last(executed) = "TransformFilter" =>
                /\ pc = "failed"
                /\ err.kind = "TransformError"
                /\ err.msg = "Moneda no soportada para precio BTC"
          /\ (Last(executed) = "FeeFilter" /\ tx.subtotal_base # None) =>
                /\ pc = "failed"
                /\ err.kind = "TransformError"
                /\ err.msg = "Moneda no soportada para FX"

\* Fee, reached after Auth with a subtotal given, failed on the currency JPY
C8_Witness ==
    /\ pc = "failed"
    /\ Len(executed) = 2
    /\ Last(executed) = "FeeFilter"
    /\ tx.base_currency = "JPY"
    /\ tx.subtotal_base # None
    /\ err.msg = "Moneda no soportada para FX"

AnyUnset(t) ==
    \/ t.btc_price_in_base = None
    \/ t.subtotal_base = None
    \/ t.commission_base = None
    \/ t.total_base = None

\* C9: the Storage filter, invoked on a transaction with any of price,
\* subtotal, commission_base or total unset, raises StorageError
\* "Transaccion incompleta", appends no row and sets no storage_result.
C9_RejectIncomplete ==
    [][(pc = "running" /\ idx <= Len(filters) /\ filters[idx] = "StorageFilter"
            /\ AnyUnset(tx)) =>
        /\ pc' = "failed"
        /\ err'.kind = "StorageError"
        /\ err'.msg = "Transaccion incompleta; verifique filtros previos."
        /\ db' = db
        /\ context'.storage_result = Absent]_vars

\* Storage refused a transaction in which only the price was missing
C9_Witness ==
    /\ pc = "failed"
    /\ Last(executed) = "StorageFilter"
    /\ tx.btc_price_in_base = None
    /\ tx.subtotal_base # None /\ tx.commission_base # None /\ tx.total_base # None
    /\ err.msg = "Transaccion incompleta; verifique filtros previos."
    /\ db = db0

\* C10: a write error in the Storage filter, whether on opening the store,
\* on the insert or on the commit, makes the filter raise a StorageError
\* that carries the cause, and sets no storage_result.
C10_WriteErrorIsStorageError ==
    [][(fault = "none" /\ fault' # "none") =>
        /\ pc' = "failed"
        /\ err'.kind = "StorageError"
        /\ err'.cause = fault'
        /\ context'.storage_result = context.storage_result]_vars

\* C11: the batch yields one report entry per transaction, in input order:
\* every run that ends is reported and the batch goes on; the entry is ok,
\* with storage_result "ok", exactly when all five filters ran, and else it
\* is a failure entry with the kind and message of the filter that raised.
C11_BatchReport ==
    /\ []((filters = MainFilters /\ pc = "idle") =>
            /\ Len(results) = runs
            /\ \A i \in 1..Len(results) : results[i].transaction = i)
    /\ [][(filters = MainFilters /\ pc \in {"done", "failed"}) =>
            /\ pc' = "idle"
            /\ results' = Append(results, Last(results'))
            /\ pc = "done" =>
                  /\ Last(results').ok
                  /\ Last(results').storage_result = "ok"
                  /\ executed = MainFilters
            /\ pc = "failed" =>
                  /\ ~Last(results').ok
                  /\ Last(results').error = err.kind
                  /\ Last(results').message = err.msg]_vars

\* C12: the ts_epoch of every Transaction constructed without an explicit
\* ts_epoch is the clock value at its own construction.
C12_FreshTimestamp ==
    runs > 0 => tx.ts_epoch = born

\* C13: with the fixed rate table and the 5.00 USD fee a successful run has
\* subtotal = round(price * amount, 2), commission_base =
\* round(commission_usd * factor, 2) and total = round(subtotal +
\* commission_base, 2); u001, 0.01, USD gives 650.00, 5.00, 655.00 and
\* storage_result "ok", and u002, 0.05, EUR gives 3050.00, 4.65, 3054.65.
C13_Scenarios ==
    pc = "done" =>
        /\ tx.btc_price_in_base = Some(BtcTable[tx.base_currency])
        /\ tx.subtotal_base = Some(Round2(BtcTable[tx.base_currency] * tx.btc_amount))
        /\ tx.commission_base = Some(Round2Q(tx.commission_usd * FxUsdTable[tx.base_currency], FxDen))
        /\ tx.total_base = Some(Round2(Val(tx.subtotal_base) + Val(tx.commission_base)))
        /\ (tx0.user_id = "u001" /\ tx0.btc_amount = 1000 /\ tx0.base_currency = "USD") =>
              /\ tx.btc_price_in_base = {65000}
              /\ tx.subtotal_base = {65000000}
              /\ tx.commission_base = {500000}
              /\ tx.total_base = {65500000}
              /\ context.storage_result = "ok"
        /\ (tx0.user_id = "u002" /\ tx0.btc_amount = 5000 /\ tx0.base_currency = "EUR") =>
              /\ tx.btc_price_in_base = {61000}
              /\ tx.subtotal_base = {305000000}
              /\ tx.commission_base = {465000}
              /\ tx.total_base = {305465000}

\* the EUR example of u002 has run to success and was stored
C13_Witness ==
    /\ pc = "done"
    /\ tx0.user_id = "u002" /\ tx0.btc_amount = 5000 /\ tx0.base_currency = "EUR"
    /\ tx.total_base # None
    /\ context.storage_result = "ok"

Returned == {i \in DOMAIN thr : thr[i].pc = "returned"}

\* C14: when several runs, each with its own context and Transaction,
\* execute their Storage stage in any interleaving, every run whose Storage
\* stage returned has exactly one row in the store, holding its own
\* transaction's fields; no row is lost or duplicated and the ids are distinct.
C14_ConcurrentAppend ==
    /\ \A i \in Returned :
          /\ thr[i].context.storage_result = "ok"
          /\ Cardinality({j \in 1..Len(db) : db[j].id = Val(thr[i].row).id}) = 1
          /\ \A j \in 1..Len(db) :
                db[j].id = Val(thr[i].row).id => db[j] = Row(thr[i].tx, db[j].id)
    /\ Len(db) = Cardinality(Returned)
    /\ \A j, k \in 1..Len(db) : j # k => db[j].id # db[k].id

\* two runs on different transactions have both stored their row
C14_Witness ==
    /\ Cardinality(Returned) = 2
    /\ Len(db) = 2
    /\ thr[1].tx.base_currency # thr[2].tx.base_currency
    /\ db[1].base_currency # db[2].base_currency

FieldOrder(t) ==
    /\ t.subtotal_base # None => t.btc_price_in_base # None
    /\ t.total_base # None => (t.subtotal_base # None /\ t.commission_base # None)

\* C15 as stated: in every state of a run, subtotal_base set implies
\* btc_price_in_base set, and total_base set implies subtotal_base and
\* commission_base set.
C15_FieldOrder ==
    runs > 0 => FieldOrder(tx)

\* C15 as amended: the same, for a Transaction constructed with the four
\* computed fields unset; holds on every filter list.
C15_FieldOrderFromUnset ==
    (runs > 0 /\ \A f \in NullableFields : tx0[f] = None) => FieldOrder(tx)

\* between Transform and Fee: price and subtotal set, commission and total not yet
C15_Witness ==
    /\ filters = MainFilters
    /\ pc = "running"
    /\ idx = 4
    /\ \A f \in NullableFields : tx0[f] = None
    /\ tx.subtotal_base # None /\ tx.btc_price_in_base # None
    /\ tx.total_base = None

\* C16: the Fee filter invoked on a transaction whose subtotal is unset raises
\* TransformError "Falta subtotal_base" and assigns neither commission_base
\* nor total_base.
C16_FeeChecksSubtotal ==
    [][(pc = "running" /\ idx <= Len(filters) /\ filters[idx] = "FeeFilter"
            /\ tx.subtotal_base = None) =>
        /\ pc' = "failed"
        /\ err'.kind = "TransformError"
        /\ err'.msg = "Falta subtotal_base; ejecute TransformFilter antes."
        /\ tx'.commission_base = tx.commission_base
        /\ tx'.total_base = tx.total_base]_vars

\* a pipeline with Fee before Transform failed at Fee, commission and total unset
C16_Witness ==
    /\ filters = <<"FeeFilter", "TransformFilter">>
    /\ pc = "failed"
    /\ idx = 1
    /\ err.msg = "Falta subtotal_base; ejecute TransformFilter antes."
    /\ tx.commission_base = None /\ tx.total_base = None

\* C17: every run starts from a context holding only the Transaction under
\* its key, the context maps that key to the Transaction passed to run in
\* every state of the run, and keys added in one run are not there in the next.
C17_FreshContext ==
    /\ [](runs > 0 => context.transaction = runs)
    /\ [][runs' # runs =>
            /\ context'.transaction = runs'
            /\ context'.user = Absent
            /\ context'.storage_result = Absent]_vars

\* a second run has started after a run that added user and storage_result
C17_Witness ==
    /\ runs = 2
    /\ pc = "running"
    /\ idx = 1
    /\ results[1].ok /\ results[1].user # Absent /\ results[1].storage_result = "ok"
    /\ context.user = Absent /\ context.storage_result = Absent

SameFields(r1, r2) == [r1 EXCEPT !.id = 0] = [r2 EXCEPT !.id = 0]

\* C18: every successful Storage call appends one new row with a new id,
\* also when a row with the same field values is already stored; rows already
\* stored are never changed or removed.
C18_NotIdempotent ==
    /\ [](\A j \in 1..Len(db) : db[j].id = j)
    /\ [][/\ Len(db') >= Len(db)
          /\ SubSeq(db', 1, Len(db)) = db
          /\ (pc = "running" /\ idx <= Len(filters) /\ filters[idx] = "StorageFilter"
                /\ pc' = "running") =>
                /\ Len(db') = Len(db) + 1
                /\ SameFields(Last(db'), Row(tx, 0))
                /\ \A j \in 1..Len(db) : db[j].id # Last(db').id]_vars

\* the same transaction was run twice: two rows, equal but for the id
C18_Witness ==
    /\ filters = MainFilters
    /\ Len(db) = 2
    /\ SameFields(db[1], db[2])
    /\ db[1].id # db[2].id

\* C19: the Validation filter checks user id, then amount, then currency and
\* raises for the first check violated; a transaction violating none
\* passes with transaction and context unchanged.
C19_ValidationOrder ==
    [][(pc = "running" /\ idx <= Len(filters) /\ filters[idx] = "ValidationFilter") =>
        /\ tx' = tx
        /\ context' = context
        /\ IF tx.user_id = ""
           THEN err'.kind = "ValidationError" /\ err'.msg = "Falta user_id valido."
           ELSE IF tx.btc_amount <= 0
           THEN err'.kind = "ValidationError" /\ err'.msg = "btc_amount debe ser numerico y > 0."
           ELSE IF tx.base_currency \notin {"USD", "EUR", "GBP"}
           THEN err'.kind = "ValidationError" /\ err'.msg = "base_currency debe ser USD, EUR o GBP."
           ELSE err' = NoErr /\ pc' = "running"]_vars

\* a transaction violating all three checks was refused for its user id
C19_Witness ==
    /\ pc = "failed"
    /\ Last(executed) = "ValidationFilter"
    /\ tx.user_id = "" /\ tx.btc_amount <= 0 /\ tx.base_currency = "JPY"
    /\ err.msg = "Falta user_id valido."

\* C20: a filter that raises a PipelineError leaves the transaction, the
\* context and the store as they were when it was entered; price and
\* subtotal are written together, commission_base and total_base are written
\* together, and storage_result is set only with a row committed in the run.
C20_AllOrNothing ==
    /\ [](/\ (written.btc_price_in_base = None) = (written.subtotal_base = None)
          /\ (written.commission_base = None) = (written.total_base = None)
          /\ (runs > 0 /\ context.storage_result # Absent) => Len(db) > Len(db0))
    /\ [][(pc = "running" /\ pc' = "failed" /\ err'.kind \in PipelineErrors) =>
            /\ tx' = tx
            /\ context' = context
            /\ db' = db]_vars

\* Storage failed on the commit, after Transform and Fee: nothing was stored
C20_Witness ==
    /\ filters = MainFilters
    /\ pc = "failed"
    /\ err.kind = "StorageError" /\ err.cause = "commit"
    /\ fault = "commit"
    /\ db = db0
    /\ context.storage_result = Absent

====
